---- MODULE Spec2Model ----
(***************************************************************************)
(* LSB steganography of src/steganography.ipynb: message_to_binary,        *)
(* hide_in_image, binary_to_message and reveal_message.                    *)
(*                                                                         *)
(* A string is a sequence of code points, a binary string a sequence of    *)
(* 0/1 digits.  An image is a record [size |-> <<width, height>>,          *)
(* pixel_map |-> [<<col, row>> -> <<r, g, b>>]], as PIL's img.size and     *)
(* img.load() give it.                                                     *)
(***************************************************************************)
EXTENDS Integers, Sequences, FiniteSets, TLC

VARIABLES
    img,     \* the image file handed to hide_in_image (image_filename)
    saved,   \* the file hide_in_image saves (new_filename + ".png"), or NoImage
    enc,     \* the hide_in_image call of the session: arguments, locals, return
    dec,     \* the reveal_message call of the session: arguments, locals, return
    cell     \* the last codec demonstration cell that ran, and its output

vars == <<img, saved, enc, dec, cell>>

----------------------------------------------------------------------------
(* Bounds of the model *)

MaxWidth == 6
MaxHeight == 3
MaxMsgLen == 2
MaxDelimLen == 2
MaxCodecLen == 2

(* Program constants *)

\* format(ord(char), '08b') and range(0, len(binary), 8)
BitsPerChar == 8
\* img.size[0] * img.size[1] * 3, range(0, 3)
Channels == 3

----------------------------------------------------------------------------
(* Input domains *)

StringsUpTo(S, n) == UNION {[1..k -> S] : k \in 0..n}

\* '#' and 'a': the characters of the delimiters and of the texts already in images
Chars == {35, 97}
\* 'a': the character of the messages hidden in images
MessageChars == {97}
\* single-byte code points of the codec cells: NUL, '#', 'h', 'i', 0xFF
CodecChars == {0, 35, 104, 105, 255}

Messages == StringsUpTo(MessageChars, MaxMsgLen)
Delimiters == StringsUpTo(Chars, MaxDelimLen)

\* "hello world" and "######" of the demonstration cell
HelloWorld == <<104, 101, 108, 108, 111, 32, 119, 111, 114, 108, 100>>
SixHashes == <<35, 35, 35, 35, 35, 35>>

CodecInputs ==
    (StringsUpTo(CodecChars, MaxCodecLen) \X StringsUpTo(CodecChars, MaxCodecLen))
        \cup {<<HelloWorld, SixHashes>>}

NoImage == [size |-> <<0, 0>>, pixel_map |-> <<>>]
NoCall == [op |-> "none"]

----------------------------------------------------------------------------
(* Python built-ins the functions use *)

Min(S) == CHOOSE x \in S : \A y \in S : x <= y

\* s[a:b] for 0 <= a, 0 <= b: the slice is clamped to the string
Slice(s, a, b) ==
    LET hi == IF b < Len(s) THEN b ELSE Len(s)
    IN IF a >= hi THEN <<>> ELSE SubSeq(s, a + 1, hi)

\* s[:pos]: a negative pos counts from the end of the string
SliceTo(s, pos) ==
    IF pos >= 0 THEN Slice(s, 0, pos)
    ELSE IF Len(s) + pos <= 0 THEN <<>>
    ELSE Slice(s, 0, Len(s) + pos)

\* s.find(sub): the lowest index where sub occurs in s, -1 when it does not
Find(s, sub) ==
    LET hits == {i \in 0..(Len(s) - Len(sub)) : Slice(s, i, i + Len(sub)) = sub}
    IN IF hits = {} THEN -1 ELSE Min(hits)

\* range(start, stop, step) as the sequence of its values
RECURSIVE Range(_, _, _)
Range(start, stop, step) ==
    IF start >= stop THEN <<>> ELSE <<start>> \o Range(start + step, stop, step)

\* random.randrange(0, stop): the values it can return; none raises ValueError
randrange(stop) == 0..(stop - 1)

\* math.ceil(a / b) for a >= 0, b > 0
ceil_div(a, b) == (a + b - 1) \div b

\* bin digits of n, most significant first, without padding
RECURSIVE Digits(_)
Digits(n) == IF n < 2 THEN <<n>> ELSE Digits(n \div 2) \o <<n % 2>>

----------------------------------------------------------------------------
(* message_to_binary *)

Zeros(n) == [i \in 1..n |-> 0]

\* format(x, 'b'): no padding
format_b(x) == Digits(x)

\* format(x, '08b'): zero padded on the left to at least eight digits
format08b(x) ==
    LET d == Digits(x)
    IN IF Len(d) >= BitsPerChar THEN d ELSE Zeros(BitsPerChar - Len(d)) \o d

RECURSIVE encode_chars(_)
encode_chars(message_copy) ==
    \* for char in message_copy: binary_message += format(ord(char), '08b')
    IF message_copy = <<>> THEN <<>>
    ELSE format08b(Head(message_copy)) \o encode_chars(Tail(message_copy))

message_to_binary(message, delimiter) ==
    LET message_copy == delimiter \o message \o delimiter
    IN encode_chars(message_copy)

----------------------------------------------------------------------------
(* binary_to_message *)

\* int("0b" + digits, 2)
RECURSIVE int2(_)
int2(digits) ==
    IF digits = <<>> THEN 0
    ELSE 2 * int2(SubSeq(digits, 1, Len(digits) - 1)) + digits[Len(digits)]

RECURSIVE decode_groups(_, _, _)
decode_groups(binary, starts, width) ==
    \* for binary_idx in range(0, len(binary), 8):
    \*     decoded_message += chr(int("0b" + binary[binary_idx:binary_idx + 8], 2))
    IF starts = <<>> THEN <<>>
    ELSE <<int2(Slice(binary, Head(starts), Head(starts) + width))>>
             \o decode_groups(binary, Tail(starts), width)

\* the same loop reading seven digits of every group
binary_to_message_short(binary) ==
    decode_groups(binary, Range(0, Len(binary), BitsPerChar), BitsPerChar - 1)

binary_to_message(binary) ==
    decode_groups(binary, Range(0, Len(binary), BitsPerChar), BitsPerChar)

----------------------------------------------------------------------------
(* Return values: an error string, a decoded message, None, or an exception *)

Error(text) == [kind |-> "error", text |-> text, value |-> <<>>]
Message(chars) == [kind |-> "message", text |-> "", value |-> chars]
None == [kind |-> "none", text |-> "", value |-> <<>>]
Raise(exception) == [kind |-> "raise", text |-> exception, value |-> <<>>]

----------------------------------------------------------------------------
(* hide_in_image *)

\* the sanity checks without the check of the delimiter
hide_sanity_no_delimiter(message, delimiter) ==
    IF Len(message) = 0 THEN "Cannot encrypt without message!" ELSE ""

\* #Sanity Checks: the error string to return, "" to go on
hide_sanity(message, delimiter) ==
    IF Len(message) = 0 THEN "Cannot encrypt without message!"
    ELSE IF Len(delimiter) = 0 THEN "Cannot encrypt without delimiter!"
    ELSE ""

\* the dictionary with the entry of (1, 1) mistyped
evaluate_dict_typo(lsb, bit) ==
    IF lsb = 0 /\ bit = 0 THEN 0
    ELSE IF lsb = 1 /\ bit = 1 THEN 1
    ELSE IF lsb = 0 /\ bit = 1 THEN 1
    ELSE -1

\* the dictionary with the signs of its two changes swapped
evaluate_dict_swapped(lsb, bit) ==
    IF lsb = 0 /\ bit = 0 THEN 0
    ELSE IF lsb = 1 /\ bit = 1 THEN 0
    ELSE IF lsb = 0 /\ bit = 1 THEN -1
    ELSE 1

\* evaluate_dict = {(0, 0): 0, (1, 1): 0, (0, 1): 1, (1, 0): -1}
evaluate_dict(lsb, bit) ==
    IF lsb = 0 /\ bit = 0 THEN 0
    ELSE IF lsb = 1 /\ bit = 1 THEN 0
    ELSE IF lsb = 0 /\ bit = 1 THEN 1
    ELSE -1

RECURSIVE channel_loop(_, _, _, _, _)
channel_loop(pixel, new_value, pixel_idx, message_idx, binary_message) ==
    \* for pixel_idx in range(0, 3): ... break once the message is exhausted
    IF pixel_idx = Channels
    THEN [new_value |-> new_value, message_idx |-> message_idx]
    ELSE LET evaluate_tuple == <<pixel[pixel_idx + 1] % 2, binary_message[message_idx + 1]>>
             changed == [new_value EXCEPT ![pixel_idx + 1] =
                            @ + evaluate_dict(evaluate_tuple[1], evaluate_tuple[2])]
         IN IF message_idx + 1 = Len(binary_message)
            THEN [new_value |-> changed, message_idx |-> message_idx + 1]
            ELSE channel_loop(pixel, changed, pixel_idx + 1, message_idx + 1, binary_message)

RECURSIVE row_loop(_, _, _, _, _, _)
row_loop(pixel_map, height, pixel_col, pixel_row, message_idx, binary_message) ==
    \* for pixel_row in range(0, img.size[1]): break once the message is exhausted;
    \* pixel_map[pixel_col, pixel_row] outside the image raises IndexError
    IF pixel_row >= height \/ message_idx = Len(binary_message)
    THEN [pixel_map |-> pixel_map, message_idx |-> message_idx, index_error |-> FALSE]
    ELSE IF <<pixel_col, pixel_row>> \notin DOMAIN pixel_map
    THEN [pixel_map |-> pixel_map, message_idx |-> message_idx, index_error |-> TRUE]
    ELSE LET pixel == pixel_map[<<pixel_col, pixel_row>>]
             done == channel_loop(pixel, pixel, 0, message_idx, binary_message)
         IN row_loop([pixel_map EXCEPT ![<<pixel_col, pixel_row>>] = done.new_value],
                     height, pixel_col, pixel_row + 1, done.message_idx, binary_message)

RECURSIVE column_loop(_, _, _, _, _, _)
column_loop(pixel_map, height, pixel_col, stop_col, message_idx, binary_message) ==
    \* for pixel_col in range(random_column, random_column + columns_used)
    IF pixel_col >= stop_col
    THEN [pixel_map |-> pixel_map, message_idx |-> message_idx, index_error |-> FALSE]
    ELSE LET done == row_loop(pixel_map, height, pixel_col, 0, message_idx, binary_message)
         IN IF done.index_error THEN done
            ELSE column_loop(done.pixel_map, height, pixel_col + 1, stop_col,
                             done.message_idx, binary_message)

\* the loops walking the columns from column 0 (the line commented out in the code)
encode_loops_from_zero(pixel_map, height, random_column, columns_used, binary_message) ==
    column_loop(pixel_map, height, 0, random_column + columns_used, 0, binary_message)

\* #Begin encoding message
encode_loops(pixel_map, height, random_column, columns_used, binary_message) ==
    column_loop(pixel_map, height, random_column, random_column + columns_used,
                0, binary_message)

\* if max_size < len(binary_message)
too_large(max_size, binary_message) == max_size < Len(binary_message)

\* The call hide_in_image(message, delimiter, image_filename, new_filename) as the
\* record of its arguments, the locals it computed, the statement it left by and
\* its return value; locals = <<columns_used, random_column, message_idx>>.
HideCall(message, delimiter, left_at, ret, binary_message, locals) ==
    [op |-> "hide", message |-> message, delimiter |-> delimiter,
     left_at |-> left_at, ret |-> ret, binary_message |-> binary_message,
     columns_used |-> locals[1], random_column |-> locals[2],
     message_idx |-> locals[3]]

\* A session makes one hide_in_image call at most, then one reveal_message call
\* at most (steg_user_interface does one of the two per run).
Hide(message, delimiter) ==
    /\ enc.op = "none"
    /\ dec.op = "none"
    /\ LET sanity == hide_sanity(message, delimiter)
           binary_message == message_to_binary(message, delimiter)
           width == img.size[1]
           height == img.size[2]
           max_size == width * height * Channels
           pixels_used == ceil_div(Len(binary_message), Channels)
           columns_used == ceil_div(pixels_used, height)
           latest_start == width - columns_used
       IN IF sanity # ""
          THEN /\ enc' = HideCall(message, delimiter, "sanity", Error(sanity),
                                  <<>>, <<0, 0, 0>>)
               /\ saved' = saved
          ELSE IF too_large(max_size, binary_message)
          THEN /\ enc' = HideCall(message, delimiter, "capacity",
                                  Error("Image too small or message too large!"),
                                  binary_message, <<0, 0, 0>>)
               /\ saved' = saved
          ELSE IF randrange(latest_start) = {}
          THEN /\ enc' = HideCall(message, delimiter, "randrange", Raise("ValueError"),
                                  binary_message, <<columns_used, 0, 0>>)
               /\ saved' = saved
          ELSE \E random_column \in randrange(latest_start) :
                  LET done == encode_loops(img.pixel_map, height, random_column,
                                           columns_used, binary_message)
                  IN IF done.index_error
                     THEN /\ enc' = HideCall(message, delimiter, "encode",
                                             Raise("IndexError"), binary_message,
                                             <<columns_used, random_column,
                                               done.message_idx>>)
                          /\ saved' = saved
                     ELSE /\ enc' = HideCall(message, delimiter, "save", None,
                                             binary_message,
                                             <<columns_used, random_column,
                                               done.message_idx>>)
                          /\ saved' = [size |-> img.size, pixel_map |-> done.pixel_map]
    /\ UNCHANGED <<img, dec, cell>>

----------------------------------------------------------------------------
(* reveal_message *)

RECURSIVE read_channels(_, _)
read_channels(pixel, channel_idx) ==
    \* for channel in pixel: raw_binary += str(channel % 2)
    IF channel_idx > Len(pixel) THEN <<>>
    ELSE <<pixel[channel_idx] % 2>> \o read_channels(pixel, channel_idx + 1)

RECURSIVE read_rows(_, _, _, _)
read_rows(pixel_map, height, pixel_col, pixel_row) ==
    \* for pixel_row in range(0, img.size[1])
    IF pixel_row >= height THEN <<>>
    ELSE read_channels(pixel_map[<<pixel_col, pixel_row>>], 1)
             \o read_rows(pixel_map, height, pixel_col, pixel_row + 1)

RECURSIVE read_columns(_, _, _, _)
read_columns(pixel_map, width, height, pixel_col) ==
    \* for pixel_col in range(0, img.size[0])
    IF pixel_col >= width THEN <<>>
    ELSE read_rows(pixel_map, height, pixel_col, 0)
             \o read_columns(pixel_map, width, height, pixel_col + 1)

RECURSIVE read_across(_, _, _, _)
read_across(pixel_map, width, pixel_col, pixel_row) ==
    IF pixel_col >= width THEN <<>>
    ELSE read_channels(pixel_map[<<pixel_col, pixel_row>>], 1)
             \o read_across(pixel_map, width, pixel_col + 1, pixel_row)

RECURSIVE read_rows_first(_, _, _, _)
read_rows_first(pixel_map, width, height, pixel_row) ==
    IF pixel_row >= height THEN <<>>
    ELSE read_across(pixel_map, width, 0, pixel_row)
             \o read_rows_first(pixel_map, width, height, pixel_row + 1)

\* the pixels read row by row, not column by column
raw_binary_of_rows(image) ==
    read_rows_first(image.pixel_map, image.size[1], image.size[2], 0)

\* the least significant bits of every channel of the image, column by column
raw_binary_of(image) ==
    read_columns(image.pixel_map, image.size[1], image.size[2], 0)

RECURSIVE delimiter_loop(_, _, _, _)
delimiter_loop(raw_binary, starts, delim_bin_length, delimiter) ==
    \* for delim_start in range(0, len(raw_binary), img.size[1] * 3):
    \* msg_start of the first slice that decodes to the delimiter, -1 for
    \* msg_found == False
    IF starts = <<>> THEN -1
    ELSE LET delim_start == Head(starts)
             prospective_delim == Slice(raw_binary, delim_start,
                                        delim_start + delim_bin_length)
         IN IF binary_to_message(prospective_delim) = delimiter
            THEN delim_start + delim_bin_length
            ELSE delimiter_loop(raw_binary, Tail(starts), delim_bin_length, delimiter)

\* the search trying the first column only
find_delimiter_first_column(raw_binary, height, delimiter) ==
    delimiter_loop(raw_binary, Slice(Range(0, Len(raw_binary), height * Channels), 0, 1),
                   Len(delimiter) * BitsPerChar, delimiter)

\* #Now we find the delimiter, if it exists
find_delimiter(raw_binary, height, delimiter) ==
    delimiter_loop(raw_binary, Range(0, Len(raw_binary), height * Channels),
                   Len(delimiter) * BitsPerChar, delimiter)

\* #Sanity Check
reveal_sanity(delimiter) ==
    IF Len(delimiter) = 0 THEN "Cannot decrypt without a supplied delimiter!" ELSE ""

\* final_message = preprocessed_message[:preprocessed_message.find(str(delimiter))]
final_message_of(preprocessed_message, delimiter) ==
    SliceTo(preprocessed_message, Find(preprocessed_message, delimiter))

RevealCall(file, delimiter, left_at, ret, raw_binary, msg_start, preprocessed_message) ==
    [op |-> "reveal", file |-> file, delimiter |-> delimiter, left_at |-> left_at,
     ret |-> ret, raw_binary |-> raw_binary, msg_start |-> msg_start,
     preprocessed_message |-> preprocessed_message]

FileNamed(file) == IF file = "img" THEN img ELSE saved

Reveal(file, delimiter) ==
    /\ dec.op = "none"
    /\ FileNamed(file) # NoImage
    /\ LET image == FileNamed(file)
           sanity == reveal_sanity(delimiter)
           raw_binary == raw_binary_of(image)
           msg_start == find_delimiter(raw_binary, image.size[2], delimiter)
           preprocessed_message ==
               binary_to_message(Slice(raw_binary, msg_start, Len(raw_binary)))
       IN IF sanity # ""
          THEN dec' = RevealCall(file, delimiter, "sanity", Error(sanity), <<>>, -1, <<>>)
          ELSE IF msg_start = -1
          THEN dec' = RevealCall(file, delimiter, "search", Error("No message found!"),
                                 raw_binary, -1, <<>>)
          ELSE dec' = RevealCall(file, delimiter, "return",
                                 Message(final_message_of(preprocessed_message, delimiter)),
                                 raw_binary, msg_start, preprocessed_message)
    /\ UNCHANGED <<img, saved, enc, cell>>

----------------------------------------------------------------------------
(* The images handed to the program: every size within the bounds; the least     *)
(* significant bits of the channels, read column by column, spell a short text   *)
(* (possibly empty) that starts at the top of a column or ends with the last     *)
(* channel of the image, and are 0 elsewhere; the red, green and blue values     *)
(* sit at the bottom (0, 1), the top (254, 255) and the middle (100, 101) of     *)
(* the range.                                                                    *)

ChannelBase == <<0, 254, 100>>

NoiseTexts == StringsUpTo(Chars, 1)
\* the column the text starts in; -1: the text ends with the last channel
NoiseColumns == {-1, 0, 1}

ImageOf(width, height, noise, noise_col) ==
    LET bits == message_to_binary(noise, <<>>)
        first == IF noise_col < 0 THEN width * height * Channels - Len(bits)
                 ELSE noise_col * height * Channels
        At(col, row, ch) == ((col * height + row) * Channels + ch)
        Bit(k) == IF k >= first /\ k - first < Len(bits) THEN bits[k - first + 1] ELSE 0
    IN [size |-> <<width, height>>,
        pixel_map |-> [p \in (0..(width - 1)) \X (0..(height - 1)) |->
                          [ch \in 1..Channels |->
                              ChannelBase[ch] + Bit(At(p[1], p[2], ch - 1))]]]

Images ==
    {ImageOf(w, h, n, c) :
        w \in 1..MaxWidth, h \in 1..MaxHeight, n \in NoiseTexts, c \in NoiseColumns}

Init ==
    /\ img \in Images
    /\ saved = NoImage
    /\ enc = NoCall
    /\ dec = NoCall
    /\ cell = NoCall

Next ==
    \/ \E message \in Messages, delimiter \in Delimiters : Hide(message, delimiter)
    \/ \E file \in {"img", "saved"}, delimiter \in Delimiters : Reveal(file, delimiter)

Spec == Init /\ [][Next]_vars

----------------------------------------------------------------------------
(* The codec's demonstration cells: print(message_to_binary(...)) and           *)
(* binary_to_message(<the digits the first cell printed>).                       *)

CodecCall(op, message, delimiter, binary, decoded) ==
    [op |-> op, message |-> message, delimiter |-> delimiter,
     binary |-> binary, decoded |-> decoded]

MessageToBinaryCell(message, delimiter) ==
    /\ cell.op = "none"
    /\ cell' = CodecCall("message_to_binary", message, delimiter,
                         message_to_binary(message, delimiter), <<>>)
    /\ UNCHANGED <<img, saved, enc, dec>>

BinaryToMessageCell ==
    /\ cell.op = "message_to_binary"
    /\ cell' = CodecCall("binary_to_message", cell.message, cell.delimiter,
                         cell.binary, binary_to_message(cell.binary))
    /\ UNCHANGED <<img, saved, enc, dec>>

InitCodec ==
    /\ img = ImageOf(1, 1, <<>>, 0)
    /\ saved = NoImage
    /\ enc = NoCall
    /\ dec = NoCall
    /\ cell = NoCall

NextCodec ==
    \/ \E input \in CodecInputs : MessageToBinaryCell(input[1], input[2])
    \/ BinaryToMessageCell

SpecCodec == InitCodec /\ [][NextCodec]_vars

----------------------------------------------------------------------------
(* What the claims speak of, stated on the pixels and not by the code's loops *)

\* the k-th channel value (k = 0, 1, ...) of the column-major traversal of an image:
\* columns left to right, rows top to bottom within a column, then R, G, B
ChannelAt(image, k) ==
    LET height == image.size[2]
    IN image.pixel_map[<<k \div (height * Channels), (k \div Channels) % height>>]
                      [(k % Channels) + 1]

ChannelCount(image) == image.size[1] * image.size[2] * Channels

\* the parities of the n channels from the top of column col on, fewer at the
\* end of the image
WindowAt(image, col, n) ==
    LET first == col * image.size[2] * Channels
        left == ChannelCount(image) - first
        m == IF n < left THEN n ELSE left
    IN [i \in 1..m |-> ChannelAt(image, first + i - 1) % 2]

\* some column of the image starts a window that decodes to the delimiter
MatchesAt(image, col, delimiter) ==
    binary_to_message(WindowAt(image, col, BitsPerChar * Len(delimiter))) = delimiter

\* digit j (0 = most significant) of the eight-digit form of code point c
DigitOf(c, j) == (c \div (2 ^ (BitsPerChar - 1 - j))) % 2

BitstreamLength(message, delimiter) ==
    BitsPerChar * (Len(message) + 2 * Len(delimiter))

Abs(x) == IF x < 0 THEN -x ELSE x

HideSaved == enc.op = "hide" /\ enc.left_at = "save"

\* the first channel of the traversal hide_in_image wrote from
EmbedStart == enc.random_column * img.size[2] * Channels

CapacityError == Error("Image too small or message too large!")
NotFoundError == Error("No message found!")

----------------------------------------------------------------------------
(* C1 *)

\* a reveal_message call on the saved image with the delimiter of the hide call,
\* which does not occur inside the message
RoundTripCase ==
    /\ HideSaved
    /\ dec.op = "reveal"
    /\ dec.file = "saved"
    /\ dec.delimiter = enc.delimiter
    /\ Find(enc.message, enc.delimiter) = -1

\* C1 as claimed: for every non-empty message, every non-empty delimiter that does
\* not occur inside the message, every image large enough and every start column
\* the draw returns, reveal_message with the same delimiter on the image
\* hide_in_image saved returns the message.
C1_RoundTripAsClaimed ==
    RoundTripCase => dec.ret = Message(enc.message)

\* the delimiter's first occurrence in message + delimiter is the closing one
ClosingDelimiterFirst ==
    Find(enc.message \o enc.delimiter, enc.delimiter) = Len(enc.message)

\* no column before the start column starts a window that decodes to the delimiter
NoEarlierMatch ==
    \A col \in 0..(enc.random_column - 1) : ~MatchesAt(saved, col, enc.delimiter)

\* C1 amended: the round trip returns the message when, besides the claim's
\* conditions, the delimiter does not occur in message + delimiter before the
\* closing delimiter, and no column before the start column of the saved image
\* starts 8 * len(delimiter) parity bits that decode to the delimiter.
C1_RoundTrip ==
    (RoundTripCase /\ ClosingDelimiterFirst /\ NoEarlierMatch)
        => dec.ret = Message(enc.message)

C1_Witness ==
    /\ RoundTripCase /\ ClosingDelimiterFirst /\ NoEarlierMatch
    /\ enc.random_column > 0
    /\ dec.ret = Message(enc.message)

----------------------------------------------------------------------------
(* C2 *)

\* C2 as claimed: hide_in_image returns the capacity error if and only if
\* 8 * (len(message) + 2 * len(delimiter)) > width * height * 3, and a bitstream
\* of exactly width * height * 3 bits is accepted and embedded.
C2_CapacityBoundary ==
    (enc.op = "hide" /\ Len(enc.message) > 0 /\ Len(enc.delimiter) > 0) =>
        LET n == BitstreamLength(enc.message, enc.delimiter)
        IN /\ (enc.ret = CapacityError) <=> (n > ChannelCount(img))
           /\ (n = ChannelCount(img)) =>
                  /\ enc.ret = None
                  /\ saved # NoImage
                  /\ \A k \in 0..(n - 1) :
                         ChannelAt(saved, EmbedStart + k) % 2 = enc.binary_message[k + 1]

----------------------------------------------------------------------------
(* C3 *)

\* the hide call's bitstream fits the image and needs every column of it
DegenerateStart ==
    /\ enc.op = "hide" /\ Len(enc.message) > 0 /\ Len(enc.delimiter) > 0
    /\ LET n == BitstreamLength(enc.message, enc.delimiter)
           pixels == ceil_div(n, Channels)
           columns == ceil_div(pixels, img.size[2])
       IN n <= ChannelCount(img) /\ img.size[1] - columns <= 0

\* C3 as claimed: when the bitstream fits but width - columns_used <= 0,
\* hide_in_image returns the capacity error to its caller (no exception) and
\* saves no image.
C3_DegenerateStartIsCapacityError ==
    DegenerateStart => (enc.ret = CapacityError /\ saved = NoImage)

----------------------------------------------------------------------------
(* C4 *)

\* C4: after hide_in_image every channel of every pixel of the saved image differs
\* from its value in the image read by at most 1, and does not differ when its
\* parity already was the bit written to it.
C4_SingleBitPerturbation ==
    HideSaved =>
        /\ \A k \in 0..(ChannelCount(img) - 1) :
               Abs(ChannelAt(saved, k) - ChannelAt(img, k)) <= 1
        /\ \A k \in 0..(Len(enc.binary_message) - 1) :
               (ChannelAt(img, EmbedStart + k) % 2 = enc.binary_message[k + 1])
                   => ChannelAt(saved, EmbedStart + k) = ChannelAt(img, EmbedStart + k)

C4_Witness ==
    /\ HideSaved
    /\ \E k \in 0..(Len(enc.binary_message) - 1) :
           /\ ChannelAt(img, EmbedStart + k) % 2 = 1
           /\ enc.binary_message[k + 1] = 1
           /\ ChannelAt(saved, EmbedStart + k) = ChannelAt(img, EmbedStart + k)
    /\ \E k \in 0..(Len(enc.binary_message) - 1) :
           ChannelAt(saved, EmbedStart + k) = ChannelAt(img, EmbedStart + k) + 1
    /\ \E k \in 0..(Len(enc.binary_message) - 1) :
           ChannelAt(saved, EmbedStart + k) = ChannelAt(img, EmbedStart + k) - 1

----------------------------------------------------------------------------
(* C5 *)

\* C5: for every message m and delimiter d of single-byte code points,
\* binary_to_message(message_to_binary(m, d)) = d + m + d.
C5_CodecRoundTrip ==
    cell.op = "binary_to_message" =>
        cell.decoded = cell.delimiter \o cell.message \o cell.delimiter

C5_Witness ==
    /\ cell.op = "binary_to_message"
    /\ cell.message = <<104, 105>>
    /\ cell.delimiter = <<35, 35>>
    /\ cell.decoded = <<35, 35, 104, 105, 35, 35>>

----------------------------------------------------------------------------
(* C6 *)

\* a reveal_message call on the image hide_in_image never modified, or on the
\* saved image with a delimiter other than the one it was encoded with
MissingMessageCase ==
    /\ dec.op = "reveal"
    /\ Len(dec.delimiter) > 0
    /\ \/ dec.file = "img"
       \/ dec.file = "saved" /\ HideSaved /\ enc.delimiter # dec.delimiter

SomeColumnMatches(image, delimiter) ==
    \E col \in 0..(image.size[1] - 1) : MatchesAt(image, col, delimiter)

----------------------------------------------------------------------------
(* C7 *)

\* C7 as claimed: when reveal_message found the opening delimiter and the
\* delimiter does not occur in the text decoded from the bits after it,
\* reveal_message returns that whole text, its last character included.
C7_MissingClosingDelimiter ==
    (/\ dec.op = "reveal"
     /\ dec.left_at = "return"
     /\ Find(dec.preprocessed_message, dec.delimiter) = -1)
        => dec.ret = Message(binary_to_message(
                        Slice(dec.raw_binary, dec.msg_start, Len(dec.raw_binary))))

----------------------------------------------------------------------------
(* C8 *)

\* C8: hide_in_image with an empty message or an empty delimiter returns its
\* empty-input error before it builds the bitstream, and saves no image;
\* reveal_message with an empty delimiter returns its empty-input error before
\* it reads a pixel.
C8_EmptyInputRejection ==
    /\ (enc.op = "hide" /\ (Len(enc.message) = 0 \/ Len(enc.delimiter) = 0)) =>
           /\ enc.ret = IF Len(enc.message) = 0
                        THEN Error("Cannot encrypt without message!")
                        ELSE Error("Cannot encrypt without delimiter!")
           /\ enc.left_at = "sanity"
           /\ enc.binary_message = <<>>
           /\ saved = NoImage
    /\ (dec.op = "reveal" /\ Len(dec.delimiter) = 0) =>
           /\ dec.ret = Error("Cannot decrypt without a supplied delimiter!")
           /\ dec.left_at = "sanity"
           /\ dec.raw_binary = <<>>

C8_Witness ==
    /\ enc.op = "hide" /\ Len(enc.message) > 0 /\ Len(enc.delimiter) = 0
    /\ enc.ret.kind = "error"
    /\ dec.op = "reveal" /\ Len(dec.delimiter) = 0
    /\ dec.ret.kind = "error"

----------------------------------------------------------------------------
(* C9 *)

\* the digits the demonstration cell printed for "hello world" with "######"
HelloWorldPrinted ==
    <<0, 0, 1, 0, 0, 0, 1, 1, 0, 0, 1, 0, 0, 0, 1, 1, 0, 0, 1, 0, 0, 0, 1, 1,
      0, 0, 1, 0, 0, 0, 1, 1, 0, 0, 1, 0, 0, 0, 1, 1, 0, 0, 1, 0, 0, 0, 1, 1,
      0, 1, 1, 0, 1, 0, 0, 0, 0, 1, 1, 0, 0, 1, 0, 1, 0, 1, 1, 0, 1, 1, 0, 0,
      0, 1, 1, 0, 1, 1, 0, 0, 0, 1, 1, 0, 1, 1, 1, 1, 0, 0, 1, 0, 0, 0, 0, 0,
      0, 1, 1, 1, 0, 1, 1, 1, 0, 1, 1, 0, 1, 1, 1, 1, 0, 1, 1, 1, 0, 0, 1, 0,
      0, 1, 1, 0, 1, 1, 0, 0, 0, 1, 1, 0, 0, 1, 0, 0, 0, 0, 1, 0, 0, 0, 1, 1,
      0, 0, 1, 0, 0, 0, 1, 1, 0, 0, 1, 0, 0, 0, 1, 1, 0, 0, 1, 0, 0, 0, 1, 1,
      0, 0, 1, 0, 0, 0, 1, 1, 0, 0, 1, 0, 0, 0, 1, 1>>

\* the 48 digits of "hi" with "##"
HiPrinted ==
    <<0, 0, 1, 0, 0, 0, 1, 1, 0, 0, 1, 0, 0, 0, 1, 1, 0, 1, 1, 0, 1, 0, 0, 0,
      0, 1, 1, 0, 1, 0, 0, 1, 0, 0, 1, 0, 0, 0, 1, 1, 0, 0, 1, 0, 0, 0, 1, 1>>

\* C9: message_to_binary(m, d) has exactly 8 * (len(m) + 2 * len(d)) digits, and
\* its k-th group of eight is the zero-padded binary form, most significant
\* digit first, of the code point of the k-th character of d + m + d; it is the
\* 184 digits printed for "hello world" with "######" and the 48 digits of "hi"
\* with "##".
C9_EncodingFormat ==
    cell.op = "message_to_binary" =>
        LET message_copy == cell.delimiter \o cell.message \o cell.delimiter
        IN /\ Len(cell.binary) = BitstreamLength(cell.message, cell.delimiter)
           /\ \A k \in 1..Len(message_copy) : \A j \in 0..(BitsPerChar - 1) :
                  cell.binary[BitsPerChar * (k - 1) + j + 1] = DigitOf(message_copy[k], j)
           /\ (cell.message = HelloWorld /\ cell.delimiter = SixHashes)
                  => (Len(cell.binary) = 184 /\ cell.binary = HelloWorldPrinted)
           /\ (cell.message = <<104, 105>> /\ cell.delimiter = <<35, 35>>)
                  => (Len(cell.binary) = 48 /\ cell.binary = HiPrinted)

C9_Witness ==
    /\ cell.op = "message_to_binary"
    /\ cell.message = HelloWorld /\ cell.delimiter = SixHashes
    /\ cell.binary = HelloWorldPrinted

----------------------------------------------------------------------------
(* C10 *)

\* C10: whenever hide_in_image passes its capacity and start-column checks, it
\* reads no pixel outside the image, writes every bit of the bitstream, and
\* the parity of the k-th channel of the column-major traversal that starts at
\* the top of the start column is bit k, for every k < len(bitstream).
C10_EmbeddingCompleteAndOrdered ==
    (enc.op = "hide" /\ enc.left_at \in {"encode", "save"}) =>
        /\ enc.ret = None
        /\ enc.message_idx = Len(enc.binary_message)
        /\ EmbedStart + Len(enc.binary_message) <= ChannelCount(img)
        /\ \A k \in 0..(Len(enc.binary_message) - 1) :
               ChannelAt(saved, EmbedStart + k) % 2 = enc.binary_message[k + 1]

C10_Witness ==
    /\ HideSaved
    /\ enc.random_column > 0
    /\ Len(enc.binary_message) > 0
    /\ \E k \in 0..(Len(enc.binary_message) - 1) :
           ChannelAt(saved, EmbedStart + k) # ChannelAt(img, EmbedStart + k)

----------------------------------------------------------------------------
(* C11 *)

\* C11: hide_in_image changes no channel other than the first len(bitstream)
\* channels of the traversal that starts at the top of the start column: the
\* channels of the last touched pixel after the final bit, the other pixels
\* of the planned span and every pixel of the columns before the start column
\* or after the span keep the values of the image read; the size is kept.
C11_FrameOfEmbedding ==
    HideSaved =>
        /\ saved.size = img.size
        /\ DOMAIN saved.pixel_map = DOMAIN img.pixel_map
        /\ \A k \in 0..(ChannelCount(img) - 1) :
               (k < EmbedStart \/ k >= EmbedStart + Len(enc.binary_message))
                   => ChannelAt(saved, k) = ChannelAt(img, k)

\* a hide from a start column after an odd channel, that stops inside a pixel
\* and before the end of the planned span
C11_Witness ==
    /\ HideSaved
    /\ enc.random_column > 0
    /\ Len(enc.binary_message) % Channels # 0
    /\ ceil_div(Len(enc.binary_message), Channels) < enc.columns_used * img.size[2]
    /\ \E k \in 0..(EmbedStart - 1) : ChannelAt(img, k) % 2 = 1
    /\ \E k \in 0..(Len(enc.binary_message) - 1) :
           ChannelAt(saved, EmbedStart + k) # ChannelAt(img, EmbedStart + k)
    /\ \A k \in 0..(ChannelCount(img) - 1) :
           (k < EmbedStart \/ k >= EmbedStart + Len(enc.binary_message))
               => ChannelAt(saved, k) = ChannelAt(img, k)

----------------------------------------------------------------------------
(* C12 *)

\* all 8 * len(delimiter) parities from channel `offset` on exist in the image
\* and are the digits of the delimiter's encoding
FullWindowMatch(image, offset, delimiter) ==
    LET digits == message_to_binary(delimiter, <<>>)
    IN /\ offset + Len(digits) <= ChannelCount(image)
       /\ \A i \in 0..(Len(digits) - 1) :
              ChannelAt(image, offset + i) % 2 = digits[i + 1]

\* C12 as claimed: reveal_message reports a match only at an offset that is a
\* multiple of height * 3 at which all 8 * len(delimiter) bits of the window
\* exist and equal the delimiter's encoding, and it decodes from the lowest
\* such offset; a window cut short by the end of the image is never accepted.
C12_DelimiterSearch ==
    (dec.op = "reveal" /\ dec.left_at = "return") =>
        LET image == FileNamed(dec.file)
            stride == image.size[2] * Channels
            offset == dec.msg_start - BitsPerChar * Len(dec.delimiter)
        IN /\ offset >= 0
           /\ offset % stride = 0
           /\ FullWindowMatch(image, offset, dec.delimiter)
           /\ \A col \in 0..(image.size[1] - 1) :
                  (col * stride < offset)
                      => ~FullWindowMatch(image, col * stride, dec.delimiter)

----------------------------------------------------------------------------
(* C13 *)

ChannelsInRange(image) ==
    \A k \in 0..(ChannelCount(image) - 1) : ChannelAt(image, k) \in 0..255

\* C13: if every channel value of the image read is in 0..255, every channel
\* value of the image hide_in_image saves is in 0..255: a channel of 0 is
\* never decremented and a channel of 255 is never incremented.
C13_ChannelRange ==
    (HideSaved /\ ChannelsInRange(img)) =>
        /\ ChannelsInRange(saved)
        /\ \A k \in 0..(ChannelCount(img) - 1) :
               /\ ChannelAt(img, k) = 0 => ChannelAt(saved, k) \in {0, 1}
               /\ ChannelAt(img, k) = 255 => ChannelAt(saved, k) \in {254, 255}

\* a hide that raised a channel of 0 to 1 and lowered a channel of 255 to 254
C13_Witness ==
    /\ HideSaved
    /\ ChannelsInRange(img)
    /\ \E k \in 0..(ChannelCount(img) - 1) :
           ChannelAt(img, k) = 0 /\ ChannelAt(saved, k) = 1
    /\ \E k \in 0..(ChannelCount(img) - 1) :
           ChannelAt(img, k) = 255 /\ ChannelAt(saved, k) = 254

====
